---------------------------- MODULE Spec2Model ----------------------------
(***************************************************************************)
(* Model of the restoration core of YouTube-No-Translation:                *)
(*   - the page-realm description guard (DescriptionGuardScript.js),       *)
(*   - the mobile panel observer and its refresh routines (mobilePanel.ts),*)
(*   - the search-result channel renderer patcher (patchChannelRenderer-   *)
(*     Blocks).                                                            *)
(* Each component has its own specification over the shared variables; the *)
(* variables of the other components stay at their initial values.         *)
(***************************************************************************)
EXTENDS Naturals, Sequences, FiniteSets

VARIABLES
    \* ---- page-realm guard ----
    parentNode,         \* the host DOM: node -> its parentNode (NoNode when detached)
    removeChildImpl,    \* Node.prototype.removeChild: "native" or "wrapper"
    originalKey,        \* window.__YNT_ORIGINAL_REMOVE_CHILD__: "undefined", "native" or "wrapper"
    descriptionElement, \* the element captured by the wrapper's closure (NoNode before install)
    blockCount,         \* the wrapper's closure counter of suppressed calls
    lastCall,           \* the last removeChild call and what it did
    guardHist,          \* the modes of the guard-script executions so far
    containerStayed,    \* the protected container was in the document in every state so far
    \* ---- mobile panel observer ----
    panelPresent,       \* 'ytm-app > panel-container' is in the document
    markers,            \* the marker nodes now inside the panel: "video" (.primary-info), "channel"
    mobilePanelObserver,\* the module's handle: NoObserver (null) or an observer
    connected,          \* the MutationObservers now observing the panel
    created,            \* MutationObservers constructed so far
    pendingWaits,       \* waitForElement promises not yet settled
    setupCalls,         \* calls of setupMobilePanelObserver so far
    refreshCount,       \* refresh routines started so far, per panel type
    lastBatch,          \* the last mutation batch delivered, and what one callback started
    lastSetup,          \* the last setup() call: made with the panel absent, followed by a
                        \* cleanup() while a container wait was pending
    \* ---- mobile video panel refresh ----
    location,           \* the video identifier in window.location.href (NoVideo: none)
    videoPanelOpen,     \* the panel's title element and description container exist
    titleText,          \* textContent of the panel's title element
    descText,           \* text shown in the panel's description container
    descriptionCache,   \* descriptionCache: video identifier -> description (NoText: unset)
    currentSettings,    \* currentSettings: the titleTranslation / descriptionTranslation toggles
    tasks,              \* the refreshMobileVideoPanelContent() calls in flight
    \* ---- channel resolution (mobile channel panel, search-result renderer) ----
    youtubeDataApi,     \* currentSettings.youtubeDataApi: the enabled flag, an apiKey is set
    isMobile,           \* isMobileSite()
    chanHandle,         \* getChannelHandle(window.location.href) finds a handle
    chanDescText,       \* text of the channel panel's description element (NoText: no element)
    srNameText,         \* text of the renderer's channel name element (NoText: no element)
    srDescText,         \* text of the renderer's description element (NoText: no element)
    chanOriginal,       \* the channel's original description, as both sources return it
    rs                  \* the resolution operation in flight: its position, locals and calls

guardVars == <<parentNode, removeChildImpl, originalKey, descriptionElement,
               blockCount, lastCall, guardHist, containerStayed>>

observerVars == <<panelPresent, markers, mobilePanelObserver, connected, created,
                  pendingWaits, setupCalls, refreshCount, lastBatch, lastSetup>>

videoVars == <<location, videoPanelOpen, titleText, descText, descriptionCache,
               currentSettings, tasks>>

channelVars == <<youtubeDataApi, isMobile, chanHandle, chanDescText, srNameText,
                 srDescText, chanOriginal, rs>>

vars == <<guardVars, observerVars, videoVars, channelVars>>

\* a step of one component leaves the state of the others alone
GuardStep == UNCHANGED <<observerVars, videoVars, channelVars>>
ObserverStep == UNCHANGED <<guardVars, videoVars, channelVars>>
VideoStep == UNCHANGED <<guardVars, observerVars, channelVars>>
ChannelStep == UNCHANGED <<guardVars, observerVars, videoVars>>

-----------------------------------------------------------------------------
(* Bounds *)

\* guard-script executions explored
MaxRuns == 3
\* suppressed calls counted
MaxBlock == 2
\* calls of setupMobilePanelObserver explored
MaxSetups == 2
\* mutation records in one batch
MaxRecords == 2
\* refresh routines counted, per panel type
MaxRefresh == 2

-----------------------------------------------------------------------------
(* The host DOM seen by the guard *)

NoNode == "none"
Doc == "doc"
DescNode == "desc"
Nodes == {"doc", "other", "desc", "inner", "leaf"}
Movable == Nodes \ {Doc}

\* where the host page (re-)renders each node
HomeParent(n) ==
    CASE n = "other" -> "doc"
      [] n = "desc"  -> "doc"
      [] n = "inner" -> "desc"
      [] n = "leaf"  -> "inner"

\* the ancestor walk of isInDescriptionElement, from node up to the root
RECURSIVE WalkUp(_, _, _)
WalkUp(current, target, parent) ==
    IF current = NoNode THEN FALSE
    ELSE IF current = target THEN TRUE
    ELSE WalkUp(parent[current], target, parent)

isInDescriptionElement(node) == WalkUp(node, descriptionElement, parentNode)

QueryDescriptionElement_Always == DescNode

\* document.querySelector('#description-inline-expander')
QueryDescriptionElement ==
    IF WalkUp(DescNode, Doc, parentNode) THEN DescNode ELSE NoNode

\* node is the protected container or lies inside it (in DOM d)
InContainer(node, d) == WalkUp(node, DescNode, d)

NoCall == [recv |-> NoNode, child |-> NoNode, impl |-> "none", outcome |-> "none",
           recvIn |-> FALSE, childIn |-> FALSE, wasChild |-> FALSE,
           attached |-> FALSE, blockBefore |-> 0, hist |-> << >>]

GuardInit ==
    /\ parentNode = [n \in Nodes |-> IF n = Doc THEN NoNode ELSE HomeParent(n)]
    /\ removeChildImpl = "native"
    /\ originalKey = "undefined"
    /\ descriptionElement = NoNode
    /\ blockCount = 0
    /\ lastCall = NoCall
    /\ guardHist = << >>
    /\ containerStayed = TRUE

-----------------------------------------------------------------------------
(* The guard script *)

ScriptModes == {"enable", "disable"}
ScriptAttrs == {"enable", "disable", "absent"}

\* currentScript?.getAttribute(...) || 'enable'
ModeOf(attr) == IF attr = "absent" THEN "enable" ELSE attr

AlreadyInstalled_Never == FALSE

\* if (window[ORIGINAL_KEY]) : a function is truthy, undefined is not
AlreadyInstalled == originalKey # "undefined"

DisableRestores_Skip ==
    /\ removeChildImpl' = removeChildImpl
    /\ originalKey' = originalKey

DisableRestores_ClearOnly ==
    /\ removeChildImpl' = removeChildImpl
    /\ originalKey' = "undefined"

\* Node.prototype.removeChild = originalRemoveChild; the marker is left set
DisableRestores ==
    /\ removeChildImpl' = originalKey
    /\ originalKey' = originalKey

DisableBranch_Unconditional ==
    /\ DisableRestores
    /\ UNCHANGED <<descriptionElement, blockCount>>

\* if (typeof originalRemoveChild === 'function') ... else nothing; return
DisableBranch ==
    IF originalKey # "undefined"
    THEN /\ DisableRestores
         /\ UNCHANGED <<descriptionElement, blockCount>>
    ELSE UNCHANGED <<removeChildImpl, originalKey, descriptionElement, blockCount>>

EnableBranch ==
    IF AlreadyInstalled
    THEN UNCHANGED <<removeChildImpl, originalKey, descriptionElement, blockCount>>
    ELSE IF QueryDescriptionElement = NoNode
    THEN UNCHANGED <<removeChildImpl, originalKey, descriptionElement, blockCount>>
    ELSE /\ originalKey' = removeChildImpl
         /\ blockCount' = 0
         /\ descriptionElement' = QueryDescriptionElement
         /\ removeChildImpl' = "wrapper"

RunGuardScript(attr) ==
    /\ Len(guardHist) < MaxRuns
    /\ IF ModeOf(attr) = "disable" THEN DisableBranch ELSE EnableBranch
    /\ guardHist' = Append(guardHist, ModeOf(attr))
    /\ UNCHANGED <<parentNode, lastCall, containerStayed>>
    /\ GuardStep

-----------------------------------------------------------------------------
(* removeChild calls made by the host page *)

CallRecord(recv, child, impl, outcome, d) ==
    [recv |-> recv, child |-> child, impl |-> impl, outcome |-> outcome,
     recvIn |-> InContainer(recv, parentNode),
     childIn |-> InContainer(child, parentNode),
     wasChild |-> parentNode[child] = recv,
     attached |-> d[child] = recv,
     blockBefore |-> blockCount,
     hist |-> guardHist]

\* the realm's genuine Node.prototype.removeChild: NotFoundError unless child is
\* a child of the receiver
NativeRemoveChild(recv, child, impl) ==
    IF parentNode[child] = recv
    THEN /\ parentNode' = [parentNode EXCEPT ![child] = NoNode]
         /\ lastCall' = CallRecord(recv, child, impl, "removed", parentNode')
    ELSE /\ parentNode' = parentNode
         /\ lastCall' = CallRecord(recv, child, impl, "threw", parentNode')

WrapperSuppresses_Always(recv) == TRUE

WrapperSuppresses_Strict(recv) ==
    recv # descriptionElement /\ WalkUp(recv, descriptionElement, parentNode)

\* if (isInDescriptionElement(this))
WrapperSuppresses(recv) == isInDescriptionElement(recv)

\* window[ORIGINAL_KEY].call(this, child): reaches the genuine primitive when the
\* marker holds it; a marker holding the wrapper recurses until the stack
\* overflows and an undefined marker is a TypeError, both thrown to the caller
WrapperDelegates(recv, child) ==
    /\ IF originalKey = "native"
       THEN NativeRemoveChild(recv, child, "wrapper")
       ELSE /\ parentNode' = parentNode
            /\ lastCall' = CallRecord(recv, child, "wrapper", "threw", parentNode')
    /\ blockCount' = blockCount

WrapperRemoveChild(recv, child) ==
    IF WrapperSuppresses(recv)
    THEN /\ blockCount < MaxBlock
         /\ blockCount' = blockCount + 1
         /\ parentNode' = parentNode
         /\ lastCall' = CallRecord(recv, child, "wrapper", "suppressed", parentNode')
    ELSE WrapperDelegates(recv, child)

ContainerStays == containerStayed' = (containerStayed /\ parentNode'[DescNode] = Doc)

RemoveChild(recv, child) ==
    /\ IF removeChildImpl = "wrapper"
       THEN WrapperRemoveChild(recv, child)
       ELSE NativeRemoveChild(recv, child, "native") /\ blockCount' = blockCount
    /\ ContainerStays
    /\ UNCHANGED <<removeChildImpl, originalKey, descriptionElement, guardHist>>
    /\ GuardStep

\* the host page renders a detached node back at its place
InsertNode(n) ==
    /\ parentNode[n] = NoNode
    /\ parentNode' = [parentNode EXCEPT ![n] = HomeParent(n)]
    /\ UNCHANGED <<removeChildImpl, originalKey, descriptionElement, blockCount,
                   lastCall, guardHist, containerStayed>>
    /\ GuardStep

NextGuard ==
    \/ \E attr \in ScriptAttrs : RunGuardScript(attr)
    \/ \E recv \in Nodes, child \in Movable : RemoveChild(recv, child)
    \/ \E n \in Movable : InsertNode(n)


-----------------------------------------------------------------------------
(* The mobile panel observer *)

NoObserver == 0
Markers == {"video", "channel"}
\* what an added node can be: an element matching or containing .primary-info,
\* one matching or containing ytm-about-channel-renderer, or neither (also a
\* text node)
NodeKinds == {"video", "channel", "plain"}

\* a childList mutation record (the only type delivered under the options
\* { childList: true, subtree: true }): the kinds of its added nodes and the
\* markers among its removed nodes. The host page's records either add nodes
\* (plain ones alone, or marker nodes) or remove marker nodes.
MutationRecords ==
    {r \in [added : SUBSET NodeKinds, removed : SUBSET Markers] :
        \/ r.removed = {} /\ r.added \in ({{"plain"}} \cup (SUBSET Markers \ {{}}))
        \/ r.added = {} /\ r.removed # {}}

RECURSIVE BatchesOfLen(_)
BatchesOfLen(n) ==
    IF n = 0 THEN {<< >>}
    ELSE {Append(b, r) : b \in BatchesOfLen(n - 1), r \in MutationRecords}

Batches == UNION {BatchesOfLen(n) : n \in 1..MaxRecords}

NoBatch == [len |-> 0, hasVideo |-> FALSE, hasChannel |-> FALSE,
            firstAdded |-> {}, fired |-> << >>]

ZeroRefresh == [video |-> 0, channel |-> 0]

NoSetup == [late |-> FALSE, cancelled |-> FALSE]

ObserverIdle ==
    /\ panelPresent = FALSE
    /\ markers = {}
    /\ mobilePanelObserver = NoObserver
    /\ connected = {}
    /\ created = 0
    /\ pendingWaits = 0
    /\ setupCalls = 0
    /\ refreshCount = ZeroRefresh
    /\ lastBatch = NoBatch
    /\ lastSetup = NoSetup

\* the module is loaded with no observer; the panel may or may not be rendered
ObserverInit ==
    /\ panelPresent \in BOOLEAN
    /\ markers \in SUBSET Markers
    /\ (~panelPresent => markers = {})
    /\ mobilePanelObserver = NoObserver
    /\ connected = {}
    /\ created = 0
    /\ pendingWaits = 0
    /\ setupCalls = 0
    /\ refreshCount = ZeroRefresh
    /\ lastBatch = NoBatch
    /\ lastSetup = NoSetup

\* refreshMobileVideoPanelContent() / refreshMobileChannelPanelContent() called
\* (not awaited) by the observer: fired lists the routines started, in order
CountOf(fired, k) == Cardinality({i \in 1..Len(fired) : fired[i] = k})

StartRefreshes(fired, times) ==
    /\ refreshCount.video + times * CountOf(fired, "video") <= MaxRefresh
    /\ refreshCount.channel + times * CountOf(fired, "channel") <= MaxRefresh
    /\ refreshCount' =
          [video |-> refreshCount.video + times * CountOf(fired, "video"),
           channel |-> refreshCount.channel + times * CountOf(fired, "channel")]

CleanupEffect_NoDisconnect(handle, conn) == [handle |-> NoObserver, conn |-> conn]

\* if (mobilePanelObserver) { disconnect(); mobilePanelObserver = null; }
CleanupEffect(handle, conn) ==
    IF handle # NoObserver
    THEN [handle |-> NoObserver, conn |-> conn \ {handle}]
    ELSE [handle |-> handle, conn |-> conn]

cleanupMobilePanelObserver ==
    /\ mobilePanelObserver' = CleanupEffect(mobilePanelObserver, connected).handle
    /\ connected' = CleanupEffect(mobilePanelObserver, connected).conn
    /\ lastSetup' = [lastSetup EXCEPT !.cancelled = @ \/ pendingWaits > 0]
    /\ UNCHANGED <<panelPresent, markers, created, pendingWaits, setupCalls,
                   refreshCount, lastBatch>>
    /\ ObserverStep

\* cleanupMobilePanelObserver(); waitForElement(...).then(...).catch(...)
setupMobilePanelObserver ==
    /\ setupCalls < MaxSetups
    /\ setupCalls' = setupCalls + 1
    /\ mobilePanelObserver' = CleanupEffect(mobilePanelObserver, connected).handle
    /\ connected' = CleanupEffect(mobilePanelObserver, connected).conn
    /\ pendingWaits' = pendingWaits + 1
    /\ lastSetup' = [late |-> ~panelPresent, cancelled |-> FALSE]
    /\ UNCHANGED <<panelPresent, markers, created, refreshCount, lastBatch>>
    /\ ObserverStep

InitialStateCheck_Skip == << >>

InitialStateCheck_VideoFirst ==
    IF "video" \in markers THEN <<"video">>
    ELSE IF "channel" \in markers THEN <<"channel">> ELSE << >>

\* the initial state check: one refresh per marker already in the panel
InitialStateCheck ==
    (IF "video" \in markers THEN <<"video">> ELSE << >>)
    \o (IF "channel" \in markers THEN <<"channel">> ELSE << >>)

\* the .then callback: a new MutationObserver is stored in the handle and
\* observes the panel, then the initial state is checked
WaitResolved ==
    /\ pendingWaits > 0
    /\ panelPresent
    /\ pendingWaits' = pendingWaits - 1
    /\ created' = created + 1
    /\ mobilePanelObserver' = created + 1
    /\ connected' = connected \cup {created + 1}
    /\ StartRefreshes(InitialStateCheck, 1)
    /\ UNCHANGED <<panelPresent, markers, setupCalls, lastBatch, lastSetup>>
    /\ ObserverStep

WaitRejected_Installs ==
    /\ pendingWaits > 0
    /\ ~panelPresent
    /\ pendingWaits' = pendingWaits - 1
    /\ created' = created + 1
    /\ mobilePanelObserver' = created + 1
    /\ connected' = connected \cup {created + 1}
    /\ UNCHANGED <<panelPresent, markers, setupCalls, refreshCount, lastBatch, lastSetup>>
    /\ ObserverStep

\* the .catch callback: the wait gave up, the panel never appeared
WaitRejected ==
    /\ pendingWaits > 0
    /\ ~panelPresent
    /\ pendingWaits' = pendingWaits - 1
    /\ UNCHANGED <<panelPresent, markers, mobilePanelObserver, connected, created,
                   setupCalls, refreshCount, lastBatch, lastSetup>>
    /\ ObserverStep

ObserverCallback_NoReturn(mutations) ==
    LET RECURSIVE Scan(_)
        Scan(i) ==
            IF i > Len(mutations) THEN << >>
            ELSE IF "video" \in mutations[i].added THEN <<"video">> \o Scan(i + 1)
            ELSE IF "channel" \in mutations[i].added THEN <<"channel">> \o Scan(i + 1)
            ELSE Scan(i + 1)
    IN Scan(1)

ObserverCallback_OnRemoval(mutations) ==
    LET RECURSIVE Scan(_)
        Scan(i) ==
            IF i > Len(mutations) THEN << >>
            ELSE IF "video" \in mutations[i].added \cup mutations[i].removed
            THEN <<"video">>
            ELSE IF "channel" \in mutations[i].added \cup mutations[i].removed
            THEN <<"channel">>
            ELSE Scan(i + 1)
    IN Scan(1)

\* the MutationObserver callback: the records are scanned in order; in each the
\* video marker is looked for among the added nodes first, then the channel
\* marker; the first hit starts its refresh and returns
ObserverCallback(mutations) ==
    LET RECURSIVE Scan(_)
        Scan(i) ==
            IF i > Len(mutations) THEN << >>
            ELSE IF "video" \in mutations[i].added THEN <<"video">>
            ELSE IF "channel" \in mutations[i].added THEN <<"channel">>
            ELSE Scan(i + 1)
    IN Scan(1)

\* the markers in the panel after the records of a batch, applied in order
RECURSIVE MarkersAfter(_, _)
MarkersAfter(ms, batch) ==
    IF batch = << >> THEN ms
    ELSE MarkersAfter((ms \ Head(batch).removed) \cup (Head(batch).added \cap Markers),
                      Tail(batch))

\* a batch the DOM can produce from the markers ms: a record removes only markers
\* that are there and adds only markers that are not
RECURSIVE Applicable(_, _)
Applicable(ms, batch) ==
    IF batch = << >> THEN TRUE
    ELSE /\ Head(batch).removed \subseteq ms
         /\ (Head(batch).added \cap Markers) \cap (ms \ Head(batch).removed) = {}
         /\ Applicable((ms \ Head(batch).removed) \cup (Head(batch).added \cap Markers),
                       Tail(batch))

QualifyingRecords(batch) ==
    {i \in 1..Len(batch) : batch[i].added \cap Markers # {}}

BatchSummary(batch, fired) ==
    [len |-> Len(batch),
     hasVideo |-> \E i \in 1..Len(batch) : "video" \in batch[i].added,
     hasChannel |-> \E i \in 1..Len(batch) : "channel" \in batch[i].added,
     firstAdded |-> IF QualifyingRecords(batch) = {} THEN {}
                    ELSE batch[CHOOSE i \in QualifyingRecords(batch) :
                                 \A j \in QualifyingRecords(batch) : i <= j].added,
     fired |-> fired]

\* the host page changes the panel's subtree; the batch is delivered to every
\* connected observer, whose callback runs once on it
HostMutation(batch) ==
    /\ panelPresent
    /\ Applicable(markers, batch)
    /\ markers' = MarkersAfter(markers, batch)
    /\ StartRefreshes(ObserverCallback(batch), Cardinality(connected))
    /\ lastBatch' = IF connected = {} THEN lastBatch
                    ELSE BatchSummary(batch, ObserverCallback(batch))
    /\ UNCHANGED <<panelPresent, mobilePanelObserver, connected, created,
                   pendingWaits, setupCalls, lastSetup>>
    /\ ObserverStep

\* the host page renders the panel container, with or without an open panel
HostInsertsPanel(ms) ==
    /\ ~panelPresent
    /\ panelPresent' = TRUE
    /\ markers' = ms
    /\ UNCHANGED <<mobilePanelObserver, connected, created, pendingWaits,
                   setupCalls, refreshCount, lastBatch, lastSetup>>
    /\ ObserverStep

NextObserver ==
    \/ setupMobilePanelObserver
    \/ cleanupMobilePanelObserver
    \/ WaitResolved
    \/ WaitRejected
    \/ \E batch \in Batches : HostMutation(batch)
    \/ \E ms \in SUBSET Markers : HostInsertsPanel(ms)

-----------------------------------------------------------------------------
(* The mobile video panel refresh *)

Videos == {"v1", "v2"}
NoVideo == "none"
\* Texts are strings, modelled as sequences of characters; null is NoText.
NoText == <<"null">>

Lower(c) ==
    CASE c = "A" -> "a"
      [] c = "B" -> "b"
      [] c = "C" -> "c"
      [] c = "N" -> "n"
      [] OTHER -> c

\* runs of whitespace become one space, leading whitespace is dropped
RECURSIVE Squeeze(_, _)
Squeeze(s, afterSpace) ==
    IF s = << >> THEN << >>
    ELSE IF Head(s) = " "
    THEN (IF afterSpace THEN << >> ELSE <<" ">>) \o Squeeze(Tail(s), TRUE)
    ELSE <<Head(s)>> \o Squeeze(Tail(s), FALSE)

\* String.prototype.trim, for a string whose whitespace is already squeezed
TrimEnd(s) ==
    IF s # << >> /\ s[Len(s)] = " " THEN SubSeq(s, 1, Len(s) - 1) ELSE s

\* normalizeText: letter case and whitespace are canonicalized; null normalizes
\* to the empty string
normalizeText(t) ==
    IF t = NoText THEN << >>
    ELSE TrimEnd(Squeeze([i \in 1..Len(t) |-> Lower(t[i])], TRUE))

\* String.prototype.startsWith
StartsWith(s, prefix) ==
    Len(prefix) <= Len(s) /\ SubSeq(s, 1, Len(prefix)) = prefix

\* a JavaScript string used as a condition: null and '' are falsy
Truthy(t) == t # NoText /\ t # << >>

\* the title (and likewise the description) of a video: the original, the host
\* page's translation, and the original as the host page can render it, with
\* other letter case and whitespace
OriginalOf(v) == IF v = "v1" THEN <<"a">> ELSE <<"b">>
TranslatedOf(v) == <<"x">> \o OriginalOf(v)
RespacedOf(v) == IF v = "v1" THEN <<" ", "A">> ELSE <<" ", "B">>
Originals == {OriginalOf(v) : v \in Videos}

TaskIds == {"t1", "t2"}
IdleTask == [pc |-> "idle", videoId |-> NoVideo, currentTitle |-> NoText,
             fetchFor |-> NoVideo]

VideoIdle ==
    /\ location = NoVideo
    /\ videoPanelOpen = FALSE
    /\ titleText = NoText
    /\ descText = NoText
    /\ descriptionCache = [v \in Videos |-> NoText]
    /\ currentSettings = [titleTranslation |-> FALSE, descriptionTranslation |-> FALSE]
    /\ tasks = [t \in TaskIds |-> IdleTask]

\* a watch page with the panel rendered by the host page (translated) or not
\* rendered at all (no title element, no description container), an empty cache and any setting of the two toggles
VideoInit ==
    /\ location \in Videos
    /\ videoPanelOpen \in BOOLEAN
    /\ titleText = IF videoPanelOpen THEN TranslatedOf(location) ELSE NoText
    /\ descText = titleText
    /\ descriptionCache = [v \in Videos |-> NoText]
    /\ currentSettings \in [titleTranslation : BOOLEAN, descriptionTranslation : BOOLEAN]
    /\ tasks = [t \in TaskIds |-> IdleTask]

\* extractVideoIdFromUrl(window.location.href)
extractVideoIdFromUrl == location

\* fetchMainTitle(videoId, false): the original title of videoId, or null
fetchMainTitle(videoId, ok) == IF ok THEN OriginalOf(videoId) ELSE NoText

\* fetchOriginalDescription(): takes no identifier; resolves the description of
\* the video the page showed when it was called, or null
fetchOriginalDescription(pageVideo, ok) ==
    IF ok /\ pageVideo # NoVideo THEN OriginalOf(pageVideo) ELSE NoText

\* updateDescriptionElement(container, description, videoId): the description is
\* written into the container
updateDescriptionElement(description) == description

DescriptionStage_AlwaysFetch(videoId) ==
    IF ~videoPanelOpen
    THEN [desc |-> descText, task |-> IdleTask]
    ELSE [desc |-> descText,
          task |-> [pc |-> "fetchDescription", videoId |-> videoId,
                    currentTitle |-> NoText, fetchFor |-> location]]

\* updateMobilePanelVideoDescription(videoId) up to its first suspension: what it
\* leaves in the description container and where the task stands
DescriptionStage(videoId) ==
    IF ~videoPanelOpen
    THEN [desc |-> descText, task |-> IdleTask]
    ELSE IF Truthy(descriptionCache[videoId])
    THEN [desc |-> updateDescriptionElement(descriptionCache[videoId]),
          task |-> IdleTask]
    ELSE [desc |-> descText,
          task |-> [pc |-> "fetchDescription", videoId |-> videoId,
                    currentTitle |-> NoText, fetchFor |-> location]]

AfterTitle_Ungated(videoId) == DescriptionStage(videoId)

\* the rest of refreshMobileVideoPanelContent after the title update
AfterTitle(videoId) ==
    IF currentSettings.descriptionTranslation
    THEN DescriptionStage(videoId)
    ELSE [desc |-> descText, task |-> IdleTask]

\* refreshMobileVideoPanelContent() up to its first suspension
RefreshStart(videoId) ==
    IF videoId = NoVideo
    THEN [desc |-> descText, task |-> IdleTask]
    ELSE IF currentSettings.titleTranslation /\ videoPanelOpen
    THEN [desc |-> descText,
          task |-> [pc |-> "fetchTitle", videoId |-> videoId,
                    currentTitle |-> titleText, fetchFor |-> NoVideo]]
    ELSE AfterTitle(videoId)

refreshMobileVideoPanelContent(t) ==
    /\ tasks[t].pc = "idle"
    /\ tasks' = [tasks EXCEPT ![t] = RefreshStart(extractVideoIdFromUrl).task]
    /\ descText' = RefreshStart(extractVideoIdFromUrl).desc
    /\ UNCHANGED <<location, videoPanelOpen, titleText, descriptionCache, currentSettings>>
    /\ VideoStep

\* updateMobilePanelTitle after fetchMainTitle resolved: the title element's text
TitleWrite(task, originalTitle) ==
    IF ~Truthy(originalTitle) THEN titleText
    ELSE IF normalizeText(task.currentTitle) = normalizeText(originalTitle) THEN titleText
    ELSE originalTitle

TitleFetchDone(t, ok) ==
    /\ tasks[t].pc = "fetchTitle"
    /\ titleText' = TitleWrite(tasks[t], fetchMainTitle(tasks[t].videoId, ok))
    /\ descText' = AfterTitle(tasks[t].videoId).desc
    /\ tasks' = [tasks EXCEPT ![t] = AfterTitle(tasks[t].videoId).task]
    /\ UNCHANGED <<location, videoPanelOpen, descriptionCache, currentSettings>>
    /\ VideoStep

\* descriptionCache.setDescription(videoId, fetchedDescription): the key
CacheKey(task) == task.videoId

DescriptionFetchDone(t, ok) ==
    LET fetched == fetchOriginalDescription(tasks[t].fetchFor, ok) IN
    /\ tasks[t].pc = "fetchDescription"
    /\ IF Truthy(fetched)
       THEN /\ descriptionCache' = [descriptionCache EXCEPT ![CacheKey(tasks[t])] = fetched]
            /\ descText' = updateDescriptionElement(fetched)
       ELSE UNCHANGED <<descriptionCache, descText>>
    /\ tasks' = [tasks EXCEPT ![t] = IdleTask]
    /\ UNCHANGED <<location, videoPanelOpen, titleText, currentSettings>>
    /\ VideoStep

\* the user navigates to another video; the host page renders its translated
\* title and description into the open panel
Navigate(v) ==
    /\ v # location
    /\ location' = v
    /\ IF videoPanelOpen /\ v # NoVideo
       THEN /\ titleText' = TranslatedOf(v)
            /\ descText' = TranslatedOf(v)
       ELSE UNCHANGED <<titleText, descText>>
    /\ UNCHANGED <<videoPanelOpen, descriptionCache, currentSettings, tasks>>
    /\ VideoStep

\* the host page renders the current video's title and description again
HostRenders(respaced) ==
    /\ videoPanelOpen
    /\ location # NoVideo
    /\ titleText' = IF respaced THEN RespacedOf(location) ELSE TranslatedOf(location)
    /\ descText' = TranslatedOf(location)
    /\ UNCHANGED <<location, videoPanelOpen, descriptionCache, currentSettings, tasks>>
    /\ VideoStep

NextVideo ==
    \/ \E t \in TaskIds : refreshMobileVideoPanelContent(t)
    \/ \E t \in TaskIds, ok \in BOOLEAN : TitleFetchDone(t, ok)
    \/ \E t \in TaskIds, ok \in BOOLEAN : DescriptionFetchDone(t, ok)
    \/ \E v \in Videos \cup {NoVideo} : Navigate(v)
    \/ \E respaced \in BOOLEAN : HostRenders(respaced)

-----------------------------------------------------------------------------
(* Channel resolution: the mobile channel panel's description and the channel
   name and description of a search-result channel renderer *)

\* the channel's original description and name, and what the host page shows
\* the original description as its author wrote it: without or with a trailing
\* white space
ChannelOriginals == {<<"c", "d">>, <<"c", "d", " ">>}
ChannelOriginal == chanOriginal
ChannelTexts == {<<"x", "c", "d">>,          \* the translation
                 <<"c">>,                      \* the original, cut short
                 <<"c", "d", " ", "s">>,      \* the original with a suffix appended
                 <<" ", "C", "d", " ">>}      \* the original in other case and spacing
                \cup ChannelOriginals
NameOriginal == <<"n">>
NameTexts == {<<"x", "n">>, NameOriginal, <<"N", " ">>}

\* String.prototype.trim
RECURSIVE TrimStart(_)
TrimStart(s) == IF s # << >> /\ Head(s) = " " THEN TrimStart(Tail(s)) ELSE s
RECURSIVE TrimTail(_)
TrimTail(s) ==
    IF s # << >> /\ s[Len(s)] = " " THEN TrimTail(SubSeq(s, 1, Len(s) - 1)) ELSE s
Trim(s) == TrimTail(TrimStart(s))

Lookups == {"name", "description"}
NoOfficial == [l \in Lookups |-> "notTried"]

IdleOp == [op |-> "none", pc |-> "idle", handle |-> FALSE, current |-> NoText,
           channelId |-> FALSE, data |-> "none", calls |-> << >>,
           first |-> "none", official |-> NoOfficial, started |-> {},
           outcome |-> "none", nameWritten |-> FALSE]

ChannelIdle ==
    /\ youtubeDataApi = [enabled |-> FALSE, apiKey |-> FALSE]
    /\ isMobile = FALSE
    /\ chanHandle = FALSE
    /\ chanDescText = NoText
    /\ srNameText = NoText
    /\ srDescText = NoText
    /\ chanOriginal = <<"c", "d">>
    /\ rs = IdleOp

\* any settings, platform and page; the host page shows translated texts or has
\* not rendered the elements
\* the page is either a channel page (the panel's description may be shown,
\* there is no search renderer) or a search page with one channel renderer
ChannelInit ==
    /\ youtubeDataApi \in [enabled : BOOLEAN, apiKey : BOOLEAN]
    /\ isMobile \in BOOLEAN
    /\ \/ /\ chanHandle \in BOOLEAN
          /\ chanDescText \in {NoText, <<"x", "c", "d">>}
          /\ srNameText = NoText
          /\ srDescText = NoText
       \/ /\ chanHandle = FALSE
          /\ chanDescText = NoText
          /\ srNameText = <<"x", "n">>
          /\ srDescText = IF isMobile THEN NoText ELSE <<"x", "c", "d">>
    /\ chanOriginal \in ChannelOriginals
    /\ rs = IdleOp

\* isYouTubeDataAPIEnabled(currentSettings): the flag is on and a credential is set
isYouTubeDataAPIEnabled == youtubeDataApi.enabled /\ youtubeDataApi.apiKey

\* a call of one of the two sources, logged with the lookup it serves
Call(r, lookup, api, fn) ==
    [r EXCEPT !.calls = Append(@, [lookup |-> lookup, api |-> api, fn |-> fn]),
              !.started = @ \cup {lookup}]

\* the result of an Official API call: content or not
OfficialResult(r, lookup, content) ==
    [r EXCEPT !.first = IF @ = "none" THEN (IF content THEN "content" ELSE "failed")
                        ELSE @,
              !.official[lookup] = IF content THEN "content"
                                   ELSE IF @ = "content" THEN @ ELSE "failed"]

Finish(r, outcome) == [r EXCEPT !.pc = "done", !.outcome = outcome]

UseDataApiResult_Never(data) == FALSE

\* if (originalDescriptionData?.description)
UseDataApiResult(data) == data = "full"

AlreadyOriginal_Suffix(original, current) ==
    StartsWith(normalizeText(current), normalizeText(original))

\* normalizeText(originalDescription).startsWith(normalizeText(currentDescription))
AlreadyOriginal(original, current) ==
    StartsWith(normalizeText(original), normalizeText(current))

\* lines 149-156: the prefix comparison and the write
PatchChannelDescription(r) ==
    IF AlreadyOriginal(ChannelOriginal, r.current)
    THEN [rs |-> Finish(r, "alreadyOriginal"), text |-> chanDescText]
    ELSE [rs |-> Finish(r, "written"), text |-> ChannelOriginal]

\* lines 129-147: the Data API result is used if it has a description, otherwise
\* the InnerTube path is taken, discovering the channel id first if needed
AfterDataApi(r) ==
    IF UseDataApiResult(r.data)
    THEN PatchChannelDescription(r)
    ELSE IF ~r.channelId /\ r.handle
    THEN [rs |-> [Call(r, "description", "internal", "getChannelIdFromInnerTube")
                    EXCEPT !.pc = "discover"],
          text |-> chanDescText]
    ELSE IF ~r.channelId
    THEN [rs |-> Finish(r, "noChannelId"), text |-> chanDescText]
    ELSE [rs |-> [Call(r, "description", "internal",
                       "getOriginalChannelDescriptionInnerTube")
                    EXCEPT !.pc = "innerTubeDescription"],
          text |-> chanDescText]

\* lines 96-127: to the first await
ChannelDescriptionStart(r) ==
    IF chanDescText = NoText
    THEN [rs |-> Finish(r, "noElement"), text |-> chanDescText]
    ELSE LET r1 == [r EXCEPT !.current = Trim(chanDescText), !.handle = chanHandle] IN
         IF isYouTubeDataAPIEnabled
         THEN IF ~youtubeDataApi.apiKey
              THEN [rs |-> Finish(r1, "noApiKey"), text |-> chanDescText]
              ELSE IF r1.handle
              THEN [rs |-> [Call(r1, "description", "official",
                                 "getOriginalChannelDescriptionDataAPI")
                              EXCEPT !.pc = "dataApiByHandle"],
                    text |-> chanDescText]
              ELSE AfterDataApi(r1)
         ELSE AfterDataApi(r1)

ChannelFrame ==
    UNCHANGED <<youtubeDataApi, isMobile, chanHandle, srNameText, srDescText, chanOriginal>>

updateMobilePanelChannelDescription ==
    /\ rs.pc \in {"idle", "done"}
    /\ rs' = ChannelDescriptionStart([IdleOp EXCEPT !.op = "mobileChannel"]).rs
    /\ chanDescText' = ChannelDescriptionStart([IdleOp EXCEPT !.op = "mobileChannel"]).text
    /\ ChannelFrame
    /\ ChannelStep

\* refreshMobileChannelPanelContent(): the update runs if the description
\* toggle of the settings is on
refreshMobileChannelPanelContent ==
    IF currentSettings.descriptionTranslation
    THEN updateMobilePanelChannelDescription
    ELSE /\ rs.pc \in {"idle", "done"}
         /\ rs' = Finish([IdleOp EXCEPT !.op = "mobileChannel"], "disabled")
         /\ UNCHANGED chanDescText
         /\ ChannelFrame
         /\ ChannelStep

DataApiResults == {"null", "full", "noDescription"}

\* getOriginalChannelDescriptionDataAPI({ handle }) settles
DataApiByHandleDone(result) ==
    LET r == [OfficialResult(rs, "description", result = "full") EXCEPT !.data = result]
        next == IF result = "null"
                THEN [rs |-> [Call(r, "description", "internal", "getChannelIdFromInnerTube")
                                EXCEPT !.pc = "discoverForDataApi"],
                      text |-> chanDescText]
                ELSE AfterDataApi(r)
    IN /\ rs.pc = "dataApiByHandle"
       /\ rs' = next.rs
       /\ chanDescText' = next.text
       /\ ChannelFrame
       /\ ChannelStep

\* getChannelIdFromInnerTube(channelHandle) of line 121 settles
DiscoverForDataApiDone(found) ==
    LET r == [rs EXCEPT !.channelId = found]
        next == IF found
                THEN [rs |-> [Call(r, "description", "official",
                                   "getOriginalChannelDescriptionDataAPI")
                                EXCEPT !.pc = "dataApiById"],
                      text |-> chanDescText]
                ELSE AfterDataApi(r)
    IN /\ rs.pc = "discoverForDataApi"
       /\ rs' = next.rs
       /\ chanDescText' = next.text
       /\ ChannelFrame
       /\ ChannelStep

\* getOriginalChannelDescriptionDataAPI({ id }) settles
DataApiByIdDone(result) ==
    LET r == [OfficialResult(rs, "description", result = "full") EXCEPT !.data = result]
    IN /\ rs.pc = "dataApiById"
       /\ rs' = AfterDataApi(r).rs
       /\ chanDescText' = AfterDataApi(r).text
       /\ ChannelFrame
       /\ ChannelStep

\* getChannelIdFromInnerTube(channelHandle) of line 136 settles
DiscoverDone(found) ==
    LET r == [rs EXCEPT !.channelId = found]
    IN /\ rs.pc = "discover"
       /\ rs' = IF ~found THEN Finish(r, "noChannelId")
                ELSE [Call(r, "description", "internal",
                           "getOriginalChannelDescriptionInnerTube")
                        EXCEPT !.pc = "innerTubeDescription"]
       /\ UNCHANGED chanDescText
       /\ ChannelFrame
       /\ ChannelStep

\* getOriginalChannelDescriptionInnerTube(channelId) settles
InnerTubeDescriptionDone(ok) ==
    LET next == IF ok THEN PatchChannelDescription(rs)
                ELSE [rs |-> Finish(rs, "fetchFailed"), text |-> chanDescText]
    IN /\ rs.pc = "innerTubeDescription"
       /\ rs' = next.rs
       /\ chanDescText' = next.text
       /\ ChannelFrame
       /\ ChannelStep

\* the host page renders the channel panel's description again
HostRendersChannel(text) ==
    /\ chanDescText # NoText
    /\ chanDescText' = text
    /\ UNCHANGED rs
    /\ ChannelFrame
    /\ ChannelStep

\* shouldUpdateChannelName(originalChannelName, currentName): there is an
\* original name and the displayed one differs from it after normalization
shouldUpdateChannelName(original, current) ==
    Truthy(original) /\ normalizeText(original) # normalizeText(current)

SearchFrame ==
    UNCHANGED <<youtubeDataApi, isMobile, chanHandle, chanDescText, chanOriginal>>

\* one iteration of the loop of patchChannelRendererBlocks, to its first await
\* (lines 19-56); handle: a handle was extracted from the renderer
patchChannelRendererBlocks(handle) ==
    LET r == [IdleOp EXCEPT !.op = "searchRenderer", !.handle = handle] IN
    /\ rs.pc \in {"idle", "done"}
    /\ srNameText # NoText
    /\ rs' = IF ~handle THEN Finish(r, "noHandle")
             ELSE IF isYouTubeDataAPIEnabled
             THEN [Call(r, "name", "official", "fetchChannelNameDataAPI")
                     EXCEPT !.pc = "nameDataApi"]
             ELSE [Call(r, "name", "internal", "getChannelIdFromInnerTube")
                     EXCEPT !.pc = "rendererDiscover"]
    /\ UNCHANGED <<srNameText, srDescText>>
    /\ SearchFrame
    /\ ChannelStep

\* getChannelIdFromInnerTube(handle) of line 50 settles
RendererDiscoverDone(found) ==
    /\ rs.pc = "rendererDiscover"
    /\ rs' = IF ~found THEN Finish(rs, "noChannelId")
             ELSE [Call([rs EXCEPT !.channelId = TRUE], "name", "internal",
                        "fetchChannelNameInnerTube")
                     EXCEPT !.pc = "nameInnerTube"]
    /\ UNCHANGED <<srNameText, srDescText>>
    /\ SearchFrame
    /\ ChannelStep

\* nameElement?.textContent?.trim() || null
CurrentName(text) ==
    IF text = NoText \/ Trim(text) = << >> THEN NoText ELSE Trim(text)

\* line 64: nameElement && shouldUpdateChannelName(originalChannelName, currentName)
NameNeedsUpdate(text, original) ==
    text # NoText /\ shouldUpdateChannelName(original, CurrentName(text))

\* line 87: descElement && originalDescription
\*          && descElement.textContent?.trim() !== originalDescription
DescriptionNeedsUpdate(text, original) ==
    text # NoText /\ Truthy(original) /\ Trim(text) # original

\* lines 68-83: the description lookup is started, on desktop only
DescriptionLookup(r) ==
    IF isMobile THEN Finish(r, "nameOnly")
    ELSE IF isYouTubeDataAPIEnabled
    THEN [Call(r, "description", "official", "getOriginalChannelDescriptionDataAPI")
            EXCEPT !.pc = "rendererDataApi"]
    ELSE IF r.channelId
    THEN [Call(r, "description", "internal", "getOriginalChannelDescriptionInnerTube")
            EXCEPT !.pc = "rendererInnerTube"]
    ELSE Finish(r, "noChannelId")

\* fetchChannelNameDataAPI / fetchChannelNameInnerTube settles: the name is
\* patched (lines 58-66) and the description lookup started
NameFetchDone(ok) ==
    LET originalChannelName == IF ok THEN NameOriginal ELSE NoText
        write == NameNeedsUpdate(srNameText, originalChannelName)
        r == [(IF rs.pc = "nameDataApi" THEN OfficialResult(rs, "name", ok) ELSE rs)
                EXCEPT !.nameWritten = write]
    IN /\ rs.pc \in {"nameDataApi", "nameInnerTube"}
       /\ srNameText' =
             IF write
             THEN (IF Truthy(originalChannelName) THEN originalChannelName ELSE << >>)
             ELSE srNameText
       /\ rs' = DescriptionLookup(r)
       /\ UNCHANGED srDescText
       /\ SearchFrame
       /\ ChannelStep

\* the description fetch settles and the description is patched (lines 85-89)
RendererDescriptionDone(ok) ==
    LET originalDescription == IF ok THEN ChannelOriginal ELSE NoText
        r == IF rs.pc = "rendererDataApi" THEN OfficialResult(rs, "description", ok) ELSE rs
        write == DescriptionNeedsUpdate(srDescText, originalDescription)
    IN /\ rs.pc \in {"rendererDataApi", "rendererInnerTube"}
       /\ srDescText' = IF write THEN originalDescription ELSE srDescText
       /\ rs' = Finish(r, IF write THEN "written" ELSE "unchanged")
       /\ UNCHANGED srNameText
       /\ SearchFrame
       /\ ChannelStep

\* the host page renders the renderer's name and description again
HostRendersRenderer(name, description) ==
    /\ srNameText # NoText
    /\ srNameText' = name
    /\ srDescText' = IF srDescText = NoText THEN NoText ELSE description
    /\ UNCHANGED rs
    /\ SearchFrame
    /\ ChannelStep

NextChannel ==
    \/ updateMobilePanelChannelDescription
    \/ \E result \in DataApiResults : DataApiByHandleDone(result)
    \/ \E found \in BOOLEAN : DiscoverForDataApiDone(found)
    \/ \E result \in DataApiResults : DataApiByIdDone(result)
    \/ \E found \in BOOLEAN : DiscoverDone(found)
    \/ \E ok \in BOOLEAN : InnerTubeDescriptionDone(ok)
    \/ \E text \in ChannelTexts : HostRendersChannel(text)
    \/ \E handle \in BOOLEAN : patchChannelRendererBlocks(handle)
    \/ \E found \in BOOLEAN : RendererDiscoverDone(found)
    \/ \E ok \in BOOLEAN : NameFetchDone(ok)
    \/ \E ok \in BOOLEAN : RendererDescriptionDone(ok)
    \/ \E name \in NameTexts, description \in ChannelTexts :
          HostRendersRenderer(name, description)

-----------------------------------------------------------------------------
(* Specifications: one per component, the others idle *)

InitGuardSpec == GuardInit /\ ObserverIdle /\ VideoIdle /\ ChannelIdle

SpecGuard == InitGuardSpec /\ [][NextGuard]_vars

InitObserverSpec == GuardInit /\ ObserverInit /\ VideoIdle /\ ChannelIdle

SpecObserver == InitObserverSpec /\ [][NextObserver]_vars

InitVideoSpec == GuardInit /\ ObserverIdle /\ VideoInit /\ ChannelIdle

SpecVideo == InitVideoSpec /\ [][NextVideo]_vars

InitChannelSpec == GuardInit /\ ObserverIdle /\ VideoIdle /\ ChannelInit

SpecChannel == InitChannelSpec /\ [][NextChannel]_vars

\* The two panel refresh routines under one settings snapshot: the page is a
\* watch page (no channel panel) or a channel page (no video), with any setting
\* of the toggles.
InitSettingsSpec ==
    /\ GuardInit
    /\ ObserverIdle
    /\ \/ VideoInit /\ ChannelIdle
       \/ /\ location = NoVideo
          /\ videoPanelOpen = FALSE
          /\ titleText = NoText
          /\ descText = NoText
          /\ descriptionCache = [v \in Videos |-> NoText]
          /\ currentSettings \in [titleTranslation : BOOLEAN, descriptionTranslation : BOOLEAN]
          /\ tasks = [t \in TaskIds |-> IdleTask]
          /\ ChannelInit
          /\ srNameText = NoText

NextSettings ==
    \/ \E t \in TaskIds : refreshMobileVideoPanelContent(t)
    \/ \E t \in TaskIds, ok \in BOOLEAN : TitleFetchDone(t, ok)
    \/ \E t \in TaskIds, ok \in BOOLEAN : DescriptionFetchDone(t, ok)
    \/ \E v \in Videos \cup {NoVideo} : Navigate(v)
    \/ \E respaced \in BOOLEAN : HostRenders(respaced)
    \/ refreshMobileChannelPanelContent
    \/ \E result \in DataApiResults : DataApiByHandleDone(result)
    \/ \E found \in BOOLEAN : DiscoverForDataApiDone(found)
    \/ \E result \in DataApiResults : DataApiByIdDone(result)
    \/ \E found \in BOOLEAN : DiscoverDone(found)
    \/ \E ok \in BOOLEAN : InnerTubeDescriptionDone(ok)
    \/ \E text \in ChannelTexts : HostRendersChannel(text)

SpecSettings == InitSettingsSpec /\ [][NextSettings]_vars

-----------------------------------------------------------------------------
(* Claims about the observer, checked under SpecObserver *)

\* C1 (as claimed): in every reachable state at most one mutation subscription
\* is connected, whatever the interleaving of setup(), cleanup() and the
\* resolution of the container waits.
C1_SingleActiveSubscription == Cardinality(connected) <= 1

\* C2 (as claimed): a delivered batch holding both a video-info node and a
\* channel-info node among its added nodes, in whichever records, starts exactly
\* one refresh, the video refresh.
C2_VideoAlwaysWins ==
    (lastBatch.hasVideo /\ lastBatch.hasChannel) => lastBatch.fired = <<"video">>

\* C2 (amended): such a batch starts exactly one refresh per callback: that of
\* the first record, in batch order, with a qualifying added node - the video
\* refresh if that record adds a video-info node, otherwise the channel refresh.
C2_FirstRecordWins ==
    (lastBatch.hasVideo /\ lastBatch.hasChannel)
        => lastBatch.fired =
              <<IF "video" \in lastBatch.firstAdded THEN "video" ELSE "channel">>

C2_Witness ==
    /\ lastBatch.hasVideo /\ lastBatch.hasChannel
    /\ lastBatch.fired = <<"channel">>
    /\ refreshCount.channel > 0

TotalRefresh(rc) == rc.video + rc.channel

\* C12: with one setup() call made while the panel container is absent and not
\* followed by cleanup(): when the wait resolves, the new observer is the handle
\* and the only connected one, and a single marker already in the panel starts
\* exactly one refresh; with no marker at that time, the first batch that adds
\* a marker node starts exactly one refresh.
C12_LateContainer ==
    [][(setupCalls = 1 /\ lastSetup.late /\ ~lastSetup.cancelled /\ UNCHANGED lastSetup)
          => /\ (created' = created + 1)
                  => /\ mobilePanelObserver' = created'
                     /\ connected' = {created'}
                     /\ Cardinality(markers) = 1
                          => TotalRefresh(refreshCount') = TotalRefresh(refreshCount) + 1
             /\ (connected = {mobilePanelObserver} /\ refreshCount = ZeroRefresh
                    /\ lastBatch' # lastBatch
                    /\ (lastBatch'.hasVideo \/ lastBatch'.hasChannel))
                  => TotalRefresh(refreshCount') = 1]_vars

C12_Witness ==
    /\ setupCalls = 1 /\ lastSetup.late /\ ~lastSetup.cancelled
    /\ connected = {mobilePanelObserver}
    /\ lastBatch.hasVideo /\ lastBatch.hasChannel /\ lastBatch.len = MaxRecords
    /\ TotalRefresh(refreshCount) = 1

\* C14: in every reachable state, cleanupMobilePanelObserver() leaves the handle
\* null and the observer it held disconnected, a second call right after it
\* changes nothing more, and with a null handle the call changes nothing.
C14_Teardown ==
    LET e == CleanupEffect(mobilePanelObserver, connected) IN
    /\ e.handle = NoObserver
    /\ mobilePanelObserver \notin e.conn
    /\ e.conn = connected \ {mobilePanelObserver}
    /\ CleanupEffect(e.handle, e.conn) = e
    /\ mobilePanelObserver = NoObserver
          => e = [handle |-> mobilePanelObserver, conn |-> connected]

C14_Witness ==
    /\ setupCalls = 1 /\ pendingWaits = 0
    /\ created = 1
    /\ mobilePanelObserver = NoObserver
    /\ connected = {}
    /\ refreshCount.video > 0

\* C15 (as claimed): once cleanup() was called while a container wait was
\* pending, and until setup() is called again, no observer is connected and no
\* refresh starts.
C15_CleanupCancelsPendingSetup ==
    [][lastSetup.cancelled => (connected' = {} /\ refreshCount' = refreshCount)]_vars

\* C19: while the panel container has not appeared, whatever setup() calls were
\* made and whether their waits gave up or not, no observer exists, the handle
\* is null and no refresh has started.
C19_Unavailable ==
    ~panelPresent
        => /\ mobilePanelObserver = NoObserver
           /\ connected = {}
           /\ created = 0
           /\ refreshCount = ZeroRefresh

C19_Witness ==
    /\ ~panelPresent
    /\ setupCalls = MaxSetups
    /\ pendingWaits = 0
    /\ mobilePanelObserver = NoObserver

\* C20: the step that installs an observer starts, before any batch is handled
\* by that observer, the video refresh once iff the video marker is in the panel
\* and the channel refresh once iff the channel marker is, and nothing else.
C20_InitialStateReconciliation ==
    [][(created' = created + 1)
          => /\ refreshCount' =
                   [video |-> refreshCount.video + (IF "video" \in markers THEN 1 ELSE 0),
                    channel |-> refreshCount.channel
                                  + (IF "channel" \in markers THEN 1 ELSE 0)]
             /\ created' \in connected'
             /\ UNCHANGED <<markers, lastBatch>>]_vars

C20_Witness ==
    /\ created = 1
    /\ connected = {1}
    /\ lastBatch = NoBatch
    /\ markers = Markers
    /\ refreshCount = [video |-> 1, channel |-> 1]

\* C23: a batch delivered to the installed observer in which no added node is
\* a video-info or channel-info marker starts no refresh and leaves the handle,
\* the connected observers and the pending waits as they were.
C23_RemovalsDiagnosticOnly ==
    [][(lastBatch' # lastBatch /\ ~lastBatch'.hasVideo /\ ~lastBatch'.hasChannel)
          => /\ lastBatch'.fired = << >>
             /\ refreshCount' = refreshCount
             /\ UNCHANGED <<mobilePanelObserver, connected, created, pendingWaits>>]_vars

C23_Witness ==
    /\ created = 1 /\ connected = {1} /\ mobilePanelObserver = 1
    /\ lastBatch.len > 0 /\ ~lastBatch.hasVideo /\ ~lastBatch.hasChannel
    /\ markers = {}
    /\ refreshCount = [video |-> 1, channel |-> 1]

-----------------------------------------------------------------------------
(* Claims about the channel resolution, checked under SpecChannel *)

InternalCalls(lookup) ==
    {i \in 1..Len(rs.calls) : rs.calls[i].lookup = lookup /\ rs.calls[i].api = "internal"}

\* C7 (as claimed): when an operation has ended and the Official API was
\* enabled but failed for one of its lookups (no credential, or a call for that
\* lookup that returned no content), the Internal API was called for that
\* same lookup during the operation.
C7_FallbackOnFailure ==
    (rs.pc = "done" /\ youtubeDataApi.enabled)
        => \A l \in Lookups :
              (l \in rs.started /\ (~youtubeDataApi.apiKey \/ rs.official[l] = "failed"))
                  => InternalCalls(l) # {}

\* C8: in an operation whose first Official API call returned content, no call
\* of the Internal API (discovery or content fetch) is made, at any point of
\* the operation.
C8_NoInternalAfterOfficialContent ==
    rs.first = "content"
        => \A i \in 1..Len(rs.calls) : rs.calls[i].api # "internal"

C8_Witness ==
    /\ rs.pc = "done"
    /\ rs.first = "content"
    /\ rs.outcome = "written"
    /\ rs.calls # << >>

\* C11 (as claimed): when a patch operation has written a resolved original
\* text, the element it wrote to already counts as patched for a second call
\* made with the same resolver results and no DOM change in between, so that
\* the second call writes nothing: for the mobile channel description, the
\* renderer's channel name and the renderer's channel description.
C11_PatchIdempotence ==
    [][rs' # rs
          => /\ (rs'.op = "mobileChannel" /\ rs'.pc = "done" /\ rs'.outcome = "written")
                  => AlreadyOriginal(ChannelOriginal, Trim(chanDescText'))
             /\ (rs'.op = "searchRenderer" /\ rs'.nameWritten /\ ~rs.nameWritten)
                  => ~NameNeedsUpdate(srNameText', NameOriginal)
             /\ (rs'.op = "searchRenderer" /\ rs'.pc = "done" /\ rs'.outcome = "written")
                  => ~DescriptionNeedsUpdate(srDescText', ChannelOriginal)]_vars

\* the step in which updateMobilePanelChannelDescription ends with its
\* comparison made (lines 149-156)
ChannelComparisonStep ==
    /\ rs' # rs
    /\ rs'.op = "mobileChannel" /\ rs'.pc = "done"
    /\ rs'.outcome \in {"alreadyOriginal", "written"}

-----------------------------------------------------------------------------
(* Claims about the video panel refresh, checked under SpecVideo *)

\* C9 (as claimed): text resolved for a video is never written into the title
\* or the description element while the page location designates another video.
C9_NoStalePatch ==
    [][/\ (titleText' # titleText /\ titleText' \in Originals)
            => (location' # NoVideo /\ titleText' = OriginalOf(location'))
       /\ (descText' # descText /\ descText' \in Originals)
            => (location' # NoVideo /\ descText' = OriginalOf(location'))]_vars

\* C10 (as claimed): the cache entry stored under a video identifier is always
\* the description of that video.
C10_CacheNeverCorrupted ==
    \A v \in Videos :
        descriptionCache[v] # NoText => descriptionCache[v] = OriginalOf(v)

\* C22: with the description container present, updateMobilePanelVideoDescription
\* for an identifier the cache holds applies the cached text and starts no
\* fetch, and for one it does not hold starts one fetch and writes nothing yet;
\* a fetch is only ever started on a miss; when the fetch settles, either its
\* text is stored under that identifier, and applied, or the cache and the
\* description are left as they were.
C22_CacheUse ==
    /\ [](videoPanelOpen
            => \A v \in Videos :
                  IF descriptionCache[v] # NoText
                  THEN /\ DescriptionStage(v).task.pc = "idle"
                       /\ DescriptionStage(v).desc = descriptionCache[v]
                  ELSE /\ DescriptionStage(v).task.pc = "fetchDescription"
                       /\ DescriptionStage(v).task.videoId = v
                       /\ DescriptionStage(v).desc = descText)
    /\ [][\A t \in TaskIds :
            /\ (tasks[t].pc # "fetchDescription" /\ tasks'[t].pc = "fetchDescription")
                  => /\ descriptionCache[tasks'[t].videoId] = NoText
                     /\ UNCHANGED <<descriptionCache, descText>>
            /\ (tasks[t].pc = "fetchDescription" /\ tasks'[t].pc # "fetchDescription")
                  => \/ UNCHANGED <<descriptionCache, descText>>
                     \/ /\ descText' \in Originals
                        /\ descriptionCache' =
                              [descriptionCache EXCEPT ![tasks[t].videoId] = descText']
        ]_vars

C22_Witness ==
    /\ currentSettings = [titleTranslation |-> FALSE, descriptionTranslation |-> TRUE]
    /\ location = "v1"
    /\ descriptionCache = [v \in Videos |-> IF v = "v1" THEN OriginalOf("v1") ELSE NoText]
    /\ descText = OriginalOf("v1")
    /\ \A t \in TaskIds : tasks[t].pc = "idle"

-----------------------------------------------------------------------------
(* Claims about the settings, checked under SpecSettings *)

\* C24: no step changes the settings snapshot; with the title toggle off no
\* title fetch is pending and no original title is written; with the
\* description toggle off no description fetch is pending, the cache is not
\* written, no original description is written into the video panel, the
\* channel refresh makes no call, and the channel description element changes
\* only by the host page's own rendering.
C24_SettingsGating ==
    [][/\ currentSettings' = currentSettings
       /\ ~currentSettings.titleTranslation
            => /\ \A t \in TaskIds : tasks'[t].pc # "fetchTitle"
               /\ titleText' # titleText => titleText' \notin Originals
       /\ ~currentSettings.descriptionTranslation
            => /\ \A t \in TaskIds : tasks'[t].pc # "fetchDescription"
               /\ descText' # descText => descText' \notin Originals
               /\ descriptionCache' = descriptionCache
               /\ rs'.calls = << >>
               /\ rs'.pc \in {"idle", "done"}
               /\ chanDescText' # chanDescText => rs' = rs]_vars

C24_Witness ==
    /\ currentSettings = [titleTranslation |-> TRUE, descriptionTranslation |-> FALSE]
    /\ location \in Videos
    /\ titleText = OriginalOf(location)
    /\ descText = TranslatedOf(location)
    /\ rs.op = "mobileChannel" /\ rs.outcome = "disabled"

-----------------------------------------------------------------------------
(* Claims about the guard, checked under SpecGuard *)

InsideNodes == {n \in Nodes : InContainer(n, parentNode)}

\* C3 (as claimed): after the executions enable, disable, enable, with the
\* protected container in the document throughout, the wrapper is the active
\* removeChild again and a call whose receiver is inside the container is
\* suppressed.
C3_ReEnableRestoresSuppression ==
    (guardHist = <<"enable", "disable", "enable">> /\ containerStayed)
        => /\ removeChildImpl = "wrapper"
           /\ \A n \in InsideNodes : WrapperSuppresses(n)

\* C4 (as claimed): while the wrapper is active, a removeChild call removing the
\* protected container itself or a node inside it is suppressed: the node stays
\* attached and the call returns its argument.
C4_SuppressContainerOrDescendant ==
    (lastCall.impl = "wrapper" /\ lastCall.wasChild /\ lastCall.childIn)
        => (lastCall.outcome = "suppressed" /\ lastCall.attached)

\* C4 (amended): while the wrapper is active, a removeChild call removing a node
\* that lies strictly inside the protected container (so that its receiver is the
\* container or a descendant of it) is suppressed: the node stays attached, the
\* call returns its argument and the counter of suppressed calls grows by one.
C4_SuppressDescendant ==
    (lastCall.impl = "wrapper" /\ lastCall.wasChild /\ lastCall.childIn
        /\ lastCall.child # DescNode)
        => /\ lastCall.outcome = "suppressed"
           /\ lastCall.attached
           /\ lastCall.recvIn
           /\ blockCount = lastCall.blockBefore + 1

C4_Witness ==
    /\ lastCall.impl = "wrapper"
    /\ lastCall.outcome = "suppressed"
    /\ lastCall.child = "leaf" /\ lastCall.recv = "inner"
    /\ parentNode["leaf"] = "inner"

\* C5: while the wrapper is active, a removeChild call removing a node outside
\* the protected container (a child of its receiver) is delegated to the saved
\* original, which removes the node; the counter of suppressed calls is unchanged.
C5_DelegateOutside ==
    (lastCall.impl = "wrapper" /\ lastCall.wasChild /\ ~lastCall.childIn)
        => /\ lastCall.outcome = "removed"
           /\ ~lastCall.attached
           /\ blockCount = lastCall.blockBefore

C5_Witness ==
    /\ lastCall.impl = "wrapper"
    /\ lastCall.child = "other" /\ lastCall.recv = Doc
    /\ lastCall.outcome = "removed"
    /\ blockCount > 0

\* C6: after one or two executions in enable mode with the protected container
\* present, the marker holds the realm's genuine removeChild (not the wrapper)
\* and the wrapper installed by the first execution is the active primitive: the
\* second enable changes neither.
C6_EnableTwice ==
    (containerStayed /\ guardHist \in {<<"enable">>, <<"enable", "enable">>})
        => /\ originalKey = "native"
           /\ removeChildImpl = "wrapper"
           /\ descriptionElement = DescNode

C6_Witness ==
    /\ guardHist = <<"enable", "enable">>
    /\ containerStayed
    /\ removeChildImpl = "wrapper"

EnableDisable == {<<"enable", "disable">>, <<"enable", "disable", "disable">>}

\* C13: an execution in disable mode in a realm where the guard was never
\* installed (the marker is undefined) changes neither the realm's removeChild
\* nor the marker, and the execution completes.
C13_DisableWithoutEnable ==
    [][(originalKey = "undefined" /\ guardHist' = Append(guardHist, "disable"))
          => /\ removeChildImpl' = removeChildImpl
             /\ originalKey' = originalKey
             /\ removeChildImpl' = "native"]_vars

C13_Witness ==
    /\ guardHist = <<"disable", "disable">>
    /\ originalKey = "undefined"
    /\ removeChildImpl = "native"
    /\ lastCall.hist = <<"disable">>
    /\ lastCall.outcome = "removed"

\* C16: after enable then disable (and after a further disable) the realm's
\* removeChild is the genuine primitive saved by the enable, and a removeChild
\* call made then with a receiver inside the protected container removes the
\* child.
C16_DisableRestores ==
    /\ (guardHist \in EnableDisable /\ containerStayed)
          => (removeChildImpl = "native" /\ originalKey = "native")
    /\ (lastCall.hist \in EnableDisable /\ lastCall.recvIn /\ lastCall.wasChild)
          => /\ lastCall.impl = "native"
             /\ lastCall.outcome = "removed"
             /\ ~lastCall.attached
             /\ blockCount = lastCall.blockBefore

C16_Witness ==
    /\ guardHist = <<"enable", "disable", "disable">>
    /\ originalKey = "native"
    /\ lastCall.hist = <<"enable", "disable", "disable">>
    /\ lastCall.recv = "inner" /\ lastCall.child = "leaf"
    /\ lastCall.outcome = "removed"
    /\ lastCall.blockBefore > 0

\* C17: an execution in enable mode while the protected container is not in the
\* document changes neither the realm's removeChild nor the marker; an
\* execution in enable mode with the container in the document and the marker
\* still undefined installs the wrapper and saves the genuine primitive.
C17_EnableWithoutContainer ==
    [][(guardHist' = Append(guardHist, "enable"))
          => /\ ~WalkUp(DescNode, Doc, parentNode)
                  => (removeChildImpl' = removeChildImpl /\ originalKey' = originalKey)
             /\ (WalkUp(DescNode, Doc, parentNode) /\ originalKey = "undefined")
                  => (removeChildImpl' = "wrapper" /\ originalKey' = "native"
                      /\ descriptionElement' = DescNode)]_vars

C17_Witness ==
    /\ guardHist = <<"enable", "enable">>
    /\ lastCall.hist = <<"enable">>
    /\ lastCall.impl = "native"
    /\ lastCall.child = DescNode
    /\ removeChildImpl = "wrapper"
    /\ originalKey = "native"

\* C18: whenever the wrapper is the realm's removeChild, the marker holds the
\* genuine primitive (neither undefined nor the wrapper), so that a delegated
\* call reaches it.
C18_WrapperHasGenuineOriginal ==
    /\ removeChildImpl = "wrapper" => originalKey = "native"
    /\ (lastCall.impl = "wrapper" /\ lastCall.wasChild /\ ~lastCall.recvIn)
          => lastCall.outcome = "removed"

C18_Witness ==
    /\ removeChildImpl = "wrapper"
    /\ Len(guardHist) = MaxRuns
    /\ lastCall.hist = guardHist
    /\ lastCall.impl = "wrapper"
    /\ lastCall.outcome = "removed"

=============================================================================
